---- MODULE Spec2Model ----
(***************************************************************************)
(* Model of src/constraints/field.rs: the field gadgets of the circuit     *)
(* writer (neg, add, sub, mul, equal, equal_cells, not_equal,              *)
(* is_zero_cell, if_else, if_else_inner) over a backend that records every *)
(* operation it is asked to perform.                                       *)
(*                                                                         *)
(* The backend is a log.  Every backend operation appends one entry; the   *)
(* cell an operation returns is named by the index of its entry.  Entries  *)
(* of the two assert operations name no cell.  The first NumInputs entries *)
(* are the circuit's input cells.                                          *)
(***************************************************************************)
EXTENDS Integers, Sequences, FiniteSets, TLC

(* ------------------------------ bounds -------------------------------- *)

\* number of input cells of the circuit
NumInputs == 2

\* longest compound value (Var) passed to equal, not_equal and if_else
MaxLen == 2

\* longest sequence of calls on one backend (specification SpecSeq)
MaxCalls == 2

(* ------------------------------ the field ------------------------------ *)

\* B::Field, a prime field: the integers modulo Prime
Prime == 7

Field == 0 .. (Prime - 1)

zero == 0

one == 1

FAdd(x, y) == (x + y) % Prime

FNeg(x) == (Prime - x) % Prime

FMul(x, y) == (x * y) % Prime

\* witness rule of Value::Inverse: the inverse, and zero for the inverse of zero
FInv(x) == IF x = zero THEN zero ELSE CHOOSE y \in Field : FMul(x, y) = one

(* ------------------------------ values --------------------------------- *)

\* ConstOrCell::Const(ff)
Const(ff) == [tag |-> "Const", v |-> ff]

\* ConstOrCell::Cell(var)
Cell(var) == [tag |-> "Cell", v |-> var]

\* Var::new_constant
new_constant(ff) == << Const(ff) >>

\* Var::new_var
new_var(var) == << Cell(var) >>

\* Var::new_cvar
new_cvar(cvar) == << cvar >>

(* ------------------------------ backend -------------------------------- *)

Entry(op, value, a, b, k, c) ==
    [op |-> op, value |-> value, a |-> a, b |-> b, k |-> k, c |-> c]

InputEntry == Entry("input", "", 0, 0, 0, 0)

\* the backend after construction: the input cells and nothing else
NewBackend == [i \in 1 .. NumInputs |-> InputEntry]

InputCells == 1 .. NumInputs

\* a backend operation that returns a fresh cell
Alloc(bk, e) == [bk |-> Append(bk, e), cell |-> Len(bk) + 1]

backend_neg(bk, x) == Alloc(bk, Entry("neg", "", x, 0, 0, 0))

backend_add(bk, x, y) == Alloc(bk, Entry("add", "", x, y, 0, 0))

backend_add_const(bk, x, cst) == Alloc(bk, Entry("add_const", "", x, 0, cst, 0))

backend_mul(bk, x, y) == Alloc(bk, Entry("mul", "", x, y, 0, 0))

backend_mul_const(bk, x, cst) == Alloc(bk, Entry("mul_const", "", x, 0, cst, 0))

backend_sub(bk, x, y) == Alloc(bk, Entry("sub", "", x, y, 0, 0))

backend_add_constant(bk, cst) == Alloc(bk, Entry("add_constant", "", 0, 0, cst, 0))

\* new_internal_var(Value::Inverse(x))
backend_new_internal_var_Inverse(bk, x) ==
    Alloc(bk, Entry("new_internal_var", "Inverse", x, 0, 0, 0))

\* new_internal_var(Value::LinearCombination(vec![(coeff, x)], cst))
backend_new_internal_var_LinearCombination(bk, coeff, x, cst) ==
    Alloc(bk, Entry("new_internal_var", "LinearCombination", x, 0, coeff, cst))

\* the assert operations return nothing
backend_assert_eq_var(bk, x, y) == Append(bk, Entry("assert_eq_var", "", x, y, 0, 0))

backend_assert_eq_const(bk, x, cst) == Append(bk, Entry("assert_eq_const", "", x, 0, cst, 0))

(* ------------------------- results of a call --------------------------- *)

\* a call that returned var and left the backend as bk
Ret(bk, var) == [bk |-> bk, var |-> var, ok |-> TRUE]

\* a call that panicked (assert_eq!) with the backend as bk
Panic(bk) == [bk |-> bk, var |-> << >>, ok |-> FALSE]

(* --------------------------- arithmetic layer -------------------------- *)

neg(bk, cvar) ==
    IF cvar.tag = "Const"
    THEN Ret(bk, new_constant(FNeg(cvar.v)))
    ELSE LET res == backend_neg(bk, cvar.v)
         IN  Ret(res.bk, new_var(res.cell))

\* add without its fast path for the constant zero
add_without_zero_check(bk, lhs, rhs) ==
    IF lhs.tag = "Const" /\ rhs.tag = "Const"
    THEN Ret(bk, new_constant(FAdd(lhs.v, rhs.v)))
    ELSE IF lhs.tag = "Const" \/ rhs.tag = "Const"
    THEN LET cst  == IF lhs.tag = "Const" THEN lhs.v ELSE rhs.v
             cvar == IF lhs.tag = "Const" THEN rhs.v ELSE lhs.v
             res  == backend_add_const(bk, cvar, cst)
         IN  Ret(res.bk, new_var(res.cell))
    ELSE LET res == backend_add(bk, lhs.v, rhs.v)
         IN  Ret(res.bk, new_var(res.cell))

add(bk, lhs, rhs) ==
    IF lhs.tag = "Const" /\ rhs.tag = "Const"
    THEN Ret(bk, new_constant(FAdd(lhs.v, rhs.v)))
    ELSE IF lhs.tag = "Const" \/ rhs.tag = "Const"
    THEN LET cst  == IF lhs.tag = "Const" THEN lhs.v ELSE rhs.v
             cvar == IF lhs.tag = "Const" THEN rhs.v ELSE lhs.v
         IN  IF cst = zero
             THEN Ret(bk, new_var(cvar))
             ELSE LET res == backend_add_const(bk, cvar, cst)
                  IN  Ret(res.bk, new_var(res.cell))
    ELSE LET res == backend_add(bk, lhs.v, rhs.v)
         IN  Ret(res.bk, new_var(res.cell))

sub(bk, lhs, rhs) ==
    LET neg_rhs == neg(bk, rhs)
    IN  add(neg_rhs.bk, lhs, neg_rhs.var[1])

\* mul whose branch for two constants was copied from add and left adding
mul_adding_constants(bk, lhs, rhs) ==
    IF lhs.tag = "Const" /\ rhs.tag = "Const"
    THEN Ret(bk, new_constant(FAdd(lhs.v, rhs.v)))
    ELSE IF lhs.tag = "Const" \/ rhs.tag = "Const"
    THEN LET cst  == IF lhs.tag = "Const" THEN lhs.v ELSE rhs.v
             cvar == IF lhs.tag = "Const" THEN rhs.v ELSE lhs.v
         IN  IF cst = zero
             THEN Ret(bk, new_constant(cst))
             ELSE LET res == backend_mul_const(bk, cvar, cst)
                  IN  Ret(res.bk, new_var(res.cell))
    ELSE LET res == backend_mul(bk, lhs.v, rhs.v)
         IN  Ret(res.bk, new_var(res.cell))

mul(bk, lhs, rhs) ==
    IF lhs.tag = "Const" /\ rhs.tag = "Const"
    THEN Ret(bk, new_constant(FMul(lhs.v, rhs.v)))
    ELSE IF lhs.tag = "Const" \/ rhs.tag = "Const"
    THEN LET cst  == IF lhs.tag = "Const" THEN lhs.v ELSE rhs.v
             cvar == IF lhs.tag = "Const" THEN rhs.v ELSE lhs.v
         IN  IF cst = zero
             THEN Ret(bk, new_constant(cst))
             ELSE LET res == backend_mul_const(bk, cvar, cst)
                  IN  Ret(res.bk, new_var(res.cell))
    ELSE LET res == backend_mul(bk, lhs.v, rhs.v)
         IN  Ret(res.bk, new_var(res.cell))

(* ----------------------------- boolean module -------------------------- *)

\* boolean::and: the product of two boolean scalars
boolean_and(bk, lhs, rhs) == mul(bk, lhs, rhs)

\* boolean::not: one minus a boolean scalar
boolean_not(bk, cvar) == sub(bk, Const(one), cvar)

(* ----------------------------- equality layer -------------------------- *)

\* The body of equal_cells is a straight line of backend calls.  Each step
\* below is one `let` (or one assertion) of it: it takes the compiler's
\* backend m.bk together with the cells bound so far, and binds one more.
Bind(m, name, r) == [m EXCEPT !.bk = r.bk, ![name] = r.cell]

equal_cells_start(bk) ==
    [bk |-> bk, x1 |-> 0, x2 |-> 0, diff |-> 0, diff_inv |-> 0,
     diff_inv_mul_diff |-> 0, res |-> 0, neg_res |-> 0, one_minus_res |-> 0,
     res_mul_diff |-> 0]

equal_cells_x1(m, x1) ==
    IF x1.tag = "Const"
    THEN Bind(m, "x1", backend_add_constant(m.bk, x1.v))
    ELSE [m EXCEPT !.x1 = x1.v]

equal_cells_x2(m, x2) ==
    IF x2.tag = "Const"
    THEN Bind(m, "x2", backend_add_constant(m.bk, x2.v))
    ELSE [m EXCEPT !.x2 = x2.v]

\* diff with its operands the other way round: x1 - x2
equal_cells_diff_reversed(m) == Bind(m, "diff", backend_sub(m.bk, m.x1, m.x2))

\* 1. diff = x2 - x1
equal_cells_diff(m) == Bind(m, "diff", backend_sub(m.bk, m.x2, m.x1))

equal_cells_diff_inv(m) ==
    Bind(m, "diff_inv", backend_new_internal_var_Inverse(m.bk, m.diff))

\* 2. diff_inv * diff = one_minus_res
equal_cells_diff_inv_mul_diff(m) ==
    Bind(m, "diff_inv_mul_diff", backend_mul(m.bk, m.diff_inv, m.diff))

\* 3. one_minus_res = 1 - res  =>  res = 1 - diff_inv * diff
equal_cells_res(m) ==
    Bind(m, "res", backend_new_internal_var_LinearCombination(
                       m.bk, FNeg(one), m.diff_inv_mul_diff, one))

equal_cells_neg_res(m) == Bind(m, "neg_res", backend_neg(m.bk, m.res))

equal_cells_one_minus_res(m) ==
    Bind(m, "one_minus_res", backend_add_const(m.bk, m.neg_res, one))

equal_cells_assert_eq_var(m) ==
    [m EXCEPT !.bk = backend_assert_eq_var(m.bk, m.diff_inv_mul_diff, m.one_minus_res)]

\* 4. res * diff = 0
equal_cells_res_mul_diff(m) ==
    Bind(m, "res_mul_diff", backend_mul(m.bk, m.res, m.diff))

\* the gadget without its last constraint, res * diff = 0
equal_cells_assert_eq_const_dropped(m) == m

equal_cells_assert_eq_const(m) ==
    [m EXCEPT !.bk = backend_assert_eq_const(m.bk, m.res_mul_diff, zero)]

equal_cells_return(m) == Ret(m.bk, new_var(m.res))

\* equal_cells allocating diff_inv before it computes diff
equal_cells_inverse_first(bk, x1, x2) ==
    IF x1.tag = "Const" /\ x2.tag = "Const"
    THEN LET res == IF x1.v = x2.v THEN one ELSE zero
         IN  Ret(bk, new_constant(res))
    ELSE equal_cells_return(
         equal_cells_assert_eq_const(
         equal_cells_res_mul_diff(
         equal_cells_assert_eq_var(
         equal_cells_one_minus_res(
         equal_cells_neg_res(
         equal_cells_res(
         equal_cells_diff_inv_mul_diff(
         equal_cells_diff(
         equal_cells_diff_inv(
         equal_cells_x2(
         equal_cells_x1(
         equal_cells_start(bk), x1), x2)))))))))))

equal_cells(bk, x1, x2) ==
    IF x1.tag = "Const" /\ x2.tag = "Const"
    THEN LET res == IF x1.v = x2.v THEN one ELSE zero
         IN  Ret(bk, new_constant(res))
    ELSE equal_cells_return(
         equal_cells_assert_eq_const(
         equal_cells_res_mul_diff(
         equal_cells_assert_eq_var(
         equal_cells_one_minus_res(
         equal_cells_neg_res(
         equal_cells_res(
         equal_cells_diff_inv_mul_diff(
         equal_cells_diff_inv(
         equal_cells_diff(
         equal_cells_x2(
         equal_cells_x1(
         equal_cells_start(bk), x1), x2)))))))))))

\* the loop of equal keeping each element's result in place of the conjunction
RECURSIVE equal_loop_overwriting(_, _, _, _, _)
equal_loop_overwriting(bk, lhs, rhs, i, acc) ==
    IF i > Len(lhs) \/ i > Len(rhs)
    THEN Ret(bk, acc)
    ELSE LET res == equal_cells(bk, lhs[i], rhs[i])
         IN  equal_loop_overwriting(res.bk, lhs, rhs, i + 1, res.var)

\* the loop of equal: element i onwards, with the accumulator acc
RECURSIVE equal_loop(_, _, _, _, _)
equal_loop(bk, lhs, rhs, i, acc) ==
    IF i > Len(lhs) \/ i > Len(rhs)
    THEN Ret(bk, acc)
    ELSE LET res  == equal_cells(bk, lhs[i], rhs[i])
             acc2 == boolean_and(res.bk, res.var[1], acc[1])
         IN  equal_loop(acc2.bk, lhs, rhs, i + 1, acc2.var)

\* equal without its sanity check on the lengths
equal_unchecked(bk, lhs, rhs) ==
    IF Len(lhs) = 1
    THEN equal_cells(bk, lhs[1], rhs[1])
    ELSE LET acc == backend_add_constant(bk, one)
         IN  equal_loop(acc.bk, lhs, rhs, 1, new_var(acc.cell))

equal(bk, lhs, rhs) ==
    IF Len(lhs) # Len(rhs)
    THEN Panic(bk)
    ELSE IF Len(lhs) = 1
    THEN equal_cells(bk, lhs[1], rhs[1])
    ELSE LET acc == backend_add_constant(bk, one)
         IN  equal_loop(acc.bk, lhs, rhs, 1, new_var(acc.cell))

is_zero_cell(bk, var) ==
    IF var.tag = "Const"
    THEN LET res == IF var.v = zero THEN one ELSE zero
         IN  Ret(bk, new_constant(res))
    ELSE equal_cells(bk, var, Const(zero))

\* the loop of not_equal: element i onwards, with the accumulator acc
RECURSIVE not_equal_loop(_, _, _, _, _)
not_equal_loop(bk, lhs, rhs, i, acc) ==
    IF i > Len(lhs) \/ i > Len(rhs)
    THEN Ret(bk, acc)
    ELSE LET diff    == sub(bk, lhs[i], rhs[i])
             res     == is_zero_cell(diff.bk, diff.var[1])
             not_res == boolean_not(res.bk, res.var[1])
             acc2    == boolean_and(not_res.bk, not_res.var[1], acc[1])
         IN  not_equal_loop(acc2.bk, lhs, rhs, i + 1, acc2.var)

not_equal(bk, lhs, rhs) ==
    IF Len(lhs) # Len(rhs)
    THEN Panic(bk)
    ELSE IF Len(lhs) = 1
    THEN LET diff    == sub(bk, lhs[1], rhs[1])
             is_zero == is_zero_cell(diff.bk, diff.var[1])
         IN  boolean_not(is_zero.bk, is_zero.var[1])
    ELSE LET acc == backend_add_constant(bk, one)
         IN  not_equal_loop(acc.bk, lhs, rhs, 1, new_var(acc.cell))

(* ----------------------------- selection layer ------------------------- *)

\* if_else_inner multiplying cond with else_ and (1 - cond) with then_
if_else_inner_swapped(bk, cond, then_, else_) ==
    IF cond.tag = "Const"
    THEN IF cond.v = one
         THEN Ret(bk, new_cvar(then_))
         ELSE Ret(bk, new_cvar(else_))
    ELSE LET cond_then      == mul(bk, else_, cond)
             one_minus_cond == sub(cond_then.bk, Const(one), cond)
             temp           == mul(one_minus_cond.bk, one_minus_cond.var[1], then_)
         IN  add(temp.bk, cond_then.var[1], temp.var[1])

\* if_else_inner taking every constant but zero for true
if_else_inner_nonzero(bk, cond, then_, else_) ==
    IF cond.tag = "Const"
    THEN IF cond.v # zero
         THEN Ret(bk, new_cvar(then_))
         ELSE Ret(bk, new_cvar(else_))
    ELSE LET cond_then      == mul(bk, then_, cond)
             one_minus_cond == sub(cond_then.bk, Const(one), cond)
             temp           == mul(one_minus_cond.bk, one_minus_cond.var[1], else_)
         IN  add(temp.bk, cond_then.var[1], temp.var[1])

if_else_inner(bk, cond, then_, else_) ==
    IF cond.tag = "Const"
    THEN IF cond.v = one
         THEN Ret(bk, new_cvar(then_))
         ELSE Ret(bk, new_cvar(else_))
    ELSE LET cond_then      == mul(bk, then_, cond)
             one_minus_cond == sub(cond_then.bk, Const(one), cond)
             temp           == mul(one_minus_cond.bk, one_minus_cond.var[1], else_)
         IN  add(temp.bk, cond_then.var[1], temp.var[1])

\* the loop of if_else: element i onwards, with the results so far in vars
RECURSIVE if_else_loop(_, _, _, _, _, _)
if_else_loop(bk, cond, then_, else_, i, vars) ==
    IF i > Len(then_) \/ i > Len(else_)
    THEN Ret(bk, vars)
    ELSE LET var == if_else_inner(bk, cond, then_[i], else_[i])
         IN  if_else_loop(var.bk, cond, then_, else_, i + 1, Append(vars, var.var[1]))

if_else(bk, cond, then_, else_) ==
    IF Len(cond) # 1
    THEN Panic(bk)
    ELSE IF Len(then_) # Len(else_)
    THEN Panic(bk)
    ELSE if_else_loop(bk, cond[1], then_, else_, 1, << >>)

(* ------------------------- witness evaluation -------------------------- *)

\* the cells an entry reads
Reads(e) ==
    CASE e.op \in {"input", "add_constant"} -> {}
      [] e.op \in {"add", "mul", "sub", "assert_eq_var"} -> {e.a, e.b}
      [] OTHER -> {e.a}

\* the entries that name a cell
IsCell(e) == e.op \notin {"assert_eq_var", "assert_eq_const"}

\* the witness cells, whose values the witness solver supplies
InternalVars(bk) == {i \in 1 .. Len(bk) : bk[i].op = "new_internal_var"}

\* the value the solver computes for a witness cell from its deferred expression
Solve(e, vals) ==
    IF e.value = "Inverse"
    THEN FInv(vals[e.a])
    ELSE FAdd(FMul(e.k, vals[e.a]), e.c)

\* the value of entry e, the i-th, given the values vals of the entries before
\* it, the values inp of the input cells and the values wit of the witness cells
EntryVal(e, i, vals, inp, wit) ==
    CASE e.op = "input"            -> inp[i]
      [] e.op = "neg"              -> FNeg(vals[e.a])
      [] e.op = "add"              -> FAdd(vals[e.a], vals[e.b])
      [] e.op = "add_const"        -> FAdd(vals[e.a], e.k)
      [] e.op = "mul"              -> FMul(vals[e.a], vals[e.b])
      [] e.op = "mul_const"        -> FMul(vals[e.a], e.k)
      [] e.op = "sub"              -> FAdd(vals[e.a], FNeg(vals[e.b]))
      [] e.op = "add_constant"     -> e.k
      [] e.op = "new_internal_var" -> wit
      [] OTHER                     -> zero

\* the values of all cells when the solver fills the witness cells
Eval(bk, inp) ==
    LET RECURSIVE From(_, _)
        From(i, vals) ==
            IF i > Len(bk)
            THEN vals
            ELSE From(i + 1, Append(vals, EntryVal(bk[i], i, vals, inp, Solve(bk[i], vals))))
    IN  From(1, << >>)

\* the values of all cells when the witness cells are given by hint
EvalFree(bk, inp, hint) ==
    LET RECURSIVE From(_, _)
        From(i, vals) ==
            IF i > Len(bk)
            THEN vals
            ELSE From(i + 1, Append(vals, EntryVal(bk[i], i, vals, inp, hint[i])))
    IN  From(1, << >>)

\* every asserted constraint of the backend holds under the values vals
Satisfied(bk, vals) ==
    \A i \in 1 .. Len(bk) :
        /\ bk[i].op = "assert_eq_var" => vals[bk[i].a] = vals[bk[i].b]
        /\ bk[i].op = "assert_eq_const" => vals[bk[i].a] = bk[i].k

\* the value of a scalar
ValOf(cvar, vals) == IF cvar.tag = "Const" THEN cvar.v ELSE vals[cvar.v]


(* ------------------------------- state --------------------------------- *)

VARIABLES
    backend,   \* compiler.backend: the log of backend operations
    fn,        \* the function called last ("" before the first call)
    args,      \* its arguments, each a Var (a scalar argument as a Var of length 1)
    ret,       \* the Var it returned (empty if it panicked)
    status,    \* "idle" before the first call, then "returned" or "aborted"
    pre,       \* the backend when the last call began
    ncalls     \* the number of calls made

vars == << backend, fn, args, ret, status, pre, ncalls >>

Init ==
    /\ backend = NewBackend
    /\ fn = ""
    /\ args = << >>
    /\ ret = << >>
    /\ status = "idle"
    /\ pre = NewBackend
    /\ ncalls = 0

\* the call of name with arguments a produced r
Finish(name, a, r) ==
    /\ backend' = r.bk
    /\ fn' = name
    /\ args' = a
    /\ ret' = r.var
    /\ status' = IF r.ok THEN "returned" ELSE "aborted"
    /\ pre' = backend
    /\ ncalls' = ncalls + 1

(* --------------------------- argument domains -------------------------- *)

\* the Vars of length n over the scalars S
VarsOfLen(S, n) == [1 .. n -> S]

\* the Vars of length 1 to MaxLen over the scalars S
VarsOver(S) == UNION {VarsOfLen(S, n) : n \in 1 .. MaxLen}

\* n copies of the scalar x
Repeat(x, n) == [i \in 1 .. n |-> x]

\* scalars of the arithmetic layer: every constant and every input cell
Scalars == {Const(c) : c \in Field} \cup {Cell(i) : i \in InputCells}

\* elements of compound values: the constants zero and one, and two input cells
Elems == {Const(zero), Const(one), Cell(1), Cell(NumInputs)}

\* conditions: a boolean constant, a constant that is no boolean, the first cell
Conds == {Const(zero), Const(one), Const(FNeg(one)), Cell(1)}

(* ------------------------------- actions ------------------------------- *)

CallNeg(S) ==
    \E x \in S : Finish("neg", << <<x>> >>, neg(backend, x))

CallAdd(S) ==
    \E x \in S, y \in S : Finish("add", << <<x>>, <<y>> >>, add(backend, x, y))

CallSub(S) ==
    \E x \in S, y \in S : Finish("sub", << <<x>>, <<y>> >>, sub(backend, x, y))

CallMul(S) ==
    \E x \in S, y \in S : Finish("mul", << <<x>>, <<y>> >>, mul(backend, x, y))

CallEqualCells(S) ==
    \E x \in S, y \in S :
        Finish("equal_cells", << <<x>>, <<y>> >>, equal_cells(backend, x, y))

CallIsZeroCell(S) ==
    \E x \in S : Finish("is_zero_cell", << <<x>> >>, is_zero_cell(backend, x))

CallEqual(V) ==
    \E v \in V, w \in V : Finish("equal", << v, w >>, equal(backend, v, w))

CallNotEqual(V) ==
    \E v \in V, w \in V : Finish("not_equal", << v, w >>, not_equal(backend, v, w))

CallIfElse(C, V) ==
    \E c \in C, t \in V, e \in V :
        Finish("if_else", << c, t, e >>, if_else(backend, c, t, e))

\* conditions as Vars: of length 1, and of every other length up to MaxLen
CondVars == {Repeat(c, n) : c \in Conds, n \in 0 .. MaxLen}

\* no call was made yet
Fresh == status = "idle"

\* one call on a fresh backend, over all argument shapes
Next ==
    \/ Fresh /\ CallNeg(Scalars)
    \/ Fresh /\ CallAdd(Scalars)
    \/ Fresh /\ CallSub(Scalars)
    \/ Fresh /\ CallMul(Scalars)
    \/ Fresh /\ CallEqualCells(Scalars)
    \/ Fresh /\ CallIsZeroCell(Scalars)
    \/ Fresh /\ CallEqual(VarsOver(Elems))
    \/ Fresh /\ CallNotEqual(VarsOver(Elems))
    \/ Fresh /\ CallIfElse(CondVars, VarsOver(Elems))

Spec == Init /\ [][Next]_vars

(* ----------------------- sequences of calls ----------------------------- *)

\* the scalar a later call takes from the call before it: the last element of
\* what that call returned, and the constant one before the first call
Last == IF Len(ret) > 0 THEN ret[Len(ret)] ELSE Const(one)

\* scalars of a call in a sequence: the first input cell and the last result
SeqScalars == {Cell(1), Last}

\* compound values of a call in a sequence
SeqVars == {<< Cell(1) >>, << Last >>, << Last, Cell(1) >>}

\* conditions of a call in a sequence
SeqConds == {<< Last >>, << Const(one) >>}

\* another call can be made: no call panicked, and fewer than MaxCalls were made
Running == status # "aborted" /\ ncalls < MaxCalls

\* up to MaxCalls calls, one after the other, on one backend; a panic ends it
NextSeq ==
    \/ Running /\ CallNeg(SeqScalars)
    \/ Running /\ CallAdd(SeqScalars)
    \/ Running /\ CallSub(SeqScalars)
    \/ Running /\ CallMul(SeqScalars)
    \/ Running /\ CallEqualCells(SeqScalars)
    \/ Running /\ CallIsZeroCell(SeqScalars)
    \/ Running /\ CallEqual(SeqVars)
    \/ Running /\ CallNotEqual(SeqVars)
    \/ Running /\ CallIfElse(SeqConds, SeqVars)

SpecSeq == Init /\ [][NextSeq]_vars

(* ------------------------------ properties ----------------------------- *)

\* the last call returned
Returned(name) == fn = name /\ status = "returned"

\* the input cells the arguments of the last call mention
Mentioned ==
    {c \in InputCells :
        \E j \in 1 .. Len(args) : \E i \in 1 .. Len(args[j]) : args[j][i] = Cell(c)}

\* the assignments to the input cells under which the last call is judged:
\* every value for each cell its arguments mention (the other input cells,
\* which nothing the call touches reads, are left at zero)
Inputs ==
    {[c \in InputCells |-> IF c \in Mentioned THEN f[c] ELSE zero] :
        f \in [Mentioned -> Field]}

\* v and w have the same value in every element
SameValues(v, w, vals) ==
    \A i \in 1 .. Len(v) : ValOf(v[i], vals) = ValOf(w[i], vals)

Bit(p) == IF p THEN 1 ELSE 0

\* C1: equal(v, w) returns one scalar which, under every assignment to the
\* input cells, evaluates to 1 when v and w have the same value in every
\* element and to 0 when they differ in some element; the constraints it
\* emitted hold under that witness.
C1_EqualDecides ==
    Returned("equal") =>
        /\ Len(ret) = 1
        /\ \A inp \in Inputs :
              LET vals == Eval(backend, inp)
              IN  /\ Satisfied(backend, vals)
                  /\ ValOf(ret[1], vals) = Bit(SameValues(args[1], args[2], vals))

\* equal compared two compound values of length 2 that hold a cell, and its
\* result is 1 under one assignment and 0 under another
C1_Witness ==
    /\ Returned("equal")
    /\ Len(args[1]) = 2
    /\ args[1][2].tag = "Cell"
    /\ args[2][1].tag = "Cell"
    /\ \E inp \in Inputs : ValOf(ret[1], Eval(backend, inp)) = 1
    /\ \E inp \in Inputs : ValOf(ret[1], Eval(backend, inp)) = 0

\* equal_cells ran its gadget: some operand is a cell
Gadget == Returned("equal_cells") /\ (args[1][1].tag = "Cell" \/ args[2][1].tag = "Cell")

\* the assignments to the witness cells of the backend
Hints == [InternalVars(backend) -> Field]

\* the witness cell diff_inv of the gadget: the one that is not res
DiffInvCell == CHOOSE i \in InternalVars(backend) : i # ret[1].v

\* C2: the constraints equal_cells emits decide the equality bit.  Under
\* every assignment to the input cells and to the two witness cells diff_inv
\* and res that satisfies both assertions, res is 1 if diff = x2 - x1 is 0 and
\* res is 0 otherwise; and when diff = 0, every assignment with res = 1
\* satisfies them, whatever diff_inv is.
C2_GadgetSoundComplete ==
    Gadget =>
        \A inp \in Inputs : \A hint \in Hints :
            LET vals == EvalFree(backend, inp, hint)
                diff == (ValOf(args[2][1], vals) - ValOf(args[1][1], vals)) % Prime
            IN  /\ Satisfied(backend, vals) => vals[ret[1].v] = Bit(diff = 0)
                /\ (diff = 0 /\ hint[ret[1].v] = 1) => Satisfied(backend, vals)

\* the gadget ran on a cell and a constant, and there are assignments with
\* diff = 0 and diff_inv # 0 that satisfy it, and with diff # 0
C2_Witness ==
    /\ Gadget
    /\ args[1][1].tag = "Const"
    /\ Cardinality(InternalVars(backend)) = 2
    /\ \E inp \in Inputs : \E hint \in Hints :
          LET vals == EvalFree(backend, inp, hint)
          IN  /\ ValOf(args[2][1], vals) = ValOf(args[1][1], vals)
              /\ hint[DiffInvCell] # 0
              /\ Satisfied(backend, vals)
    /\ \E inp \in Inputs : \E hint \in Hints :
          LET vals == EvalFree(backend, inp, hint)
          IN  /\ ValOf(args[2][1], vals) # ValOf(args[1][1], vals)
              /\ Satisfied(backend, vals)

\* C3: not_equal is the complement of equal: under every assignment to the
\* input cells, not_equal(v, w) evaluates to 1 exactly when equal(v, w)
\* evaluates to 0, and to 0 exactly when it evaluates to 1.
C3_NotEqualComplement ==
    Returned("not_equal") =>
        \A inp \in Inputs :
            LET eq == equal(pre, args[1], args[2])
            IN  ValOf(ret[1], Eval(backend, inp))
                    = 1 - ValOf(eq.var[1], Eval(eq.bk, inp))

\* C4: with a cell as cond, if_else returns a value as long as then_, whose
\* element i evaluates, under every assignment to the input cells, to
\* (1 - cond) * else_[i] + cond * then_[i]: to then_[i] when cond is 1 and to
\* else_[i] when cond is 0.
C4_IfElseSelects ==
    (Returned("if_else") /\ args[1][1].tag = "Cell") =>
        /\ Len(ret) = Len(args[2])
        /\ \A inp \in Inputs :
              LET vals == Eval(backend, inp)
                  cond == ValOf(args[1][1], vals)
              IN  \A i \in 1 .. Len(ret) :
                    LET t == ValOf(args[2][i], vals)
                        e == ValOf(args[3][i], vals)
                    IN  /\ ValOf(ret[i], vals) = (((1 + Prime - cond) * e) + cond * t) % Prime
                        /\ cond = 1 => ValOf(ret[i], vals) = t
                        /\ cond = 0 => ValOf(ret[i], vals) = e

\* if_else selected, on a cell, between two compound values of length 2 that
\* hold a zero constant, a one constant and cells, and that differ in value
C4_Witness ==
    /\ Returned("if_else")
    /\ args[1][1].tag = "Cell"
    /\ Len(ret) = 2
    /\ args[2] = << Const(zero), Cell(2) >>
    /\ args[3] = << Cell(1), Const(one) >>
    /\ \E inp \in Inputs :
          LET vals == Eval(backend, inp)
          IN  /\ ValOf(args[1][1], vals) = 1
              /\ ValOf(ret[2], vals) # ValOf(args[3][2], vals)

\* C5: with a constant as cond, if_else performs no backend operation and
\* returns then_ itself if the constant is one, and else_ itself otherwise.
C5_IfElseConstCond ==
    (Returned("if_else") /\ args[1][1].tag = "Const") =>
        /\ backend = pre
        /\ ret = IF args[1][1].v = 1 THEN args[2] ELSE args[3]

\* if_else took a constant that is neither zero nor one as cond, and then_ and
\* else_ are different values of length 2
C5_Witness ==
    /\ Returned("if_else")
    /\ args[1][1].tag = "Const"
    /\ args[1][1].v \notin {0, 1}
    /\ Len(args[2]) = 2
    /\ args[2] # args[3]
    /\ ret = args[3]

\* the last call was name(x, y) on scalars
Called2(name) == Returned(name) /\ Len(args) = 2

\* the one constant and the one cell of a call on a constant and a cell
TheConst == IF args[1][1].tag = "Const" THEN args[1][1].v ELSE args[2][1].v

TheCell == IF args[1][1].tag = "Cell" THEN args[1][1].v ELSE args[2][1].v

Mixed == args[1][1].tag # args[2][1].tag

BothConst == args[1][1].tag = "Const" /\ args[2][1].tag = "Const"

\* C6: add and mul of two constants return the constant sum and the constant
\* product modulo the prime, and perform no backend operation.
C6_ConstFold ==
    /\ (Called2("add") /\ BothConst) =>
          /\ ret = << [tag |-> "Const", v |-> (args[1][1].v + args[2][1].v) % Prime] >>
          /\ backend = pre
    /\ (Called2("mul") /\ BothConst) =>
          /\ ret = << [tag |-> "Const", v |-> (args[1][1].v * args[2][1].v) % Prime] >>
          /\ backend = pre

\* mul folded two constants whose product wraps around the prime
C6_Witness ==
    /\ Called2("mul")
    /\ BothConst
    /\ args[1][1].v * args[2][1].v > Prime
    /\ ret[1].tag = "Const"

\* C7: on a cell x and a constant c, in either order: if c is zero, add
\* returns the cell x and mul returns the constant zero, and neither performs
\* a backend operation; otherwise add appends exactly one add_const entry and
\* mul exactly one mul_const entry, on x and c, and returns the fresh cell.
C7_CellConst ==
    /\ (Called2("add") /\ Mixed) =>
          IF TheConst = 0
          THEN ret = << [tag |-> "Cell", v |-> TheCell] >> /\ backend = pre
          ELSE /\ backend = Append(pre, Entry("add_const", "", TheCell, 0, TheConst, 0))
               /\ ret = << [tag |-> "Cell", v |-> Len(pre) + 1] >>
    /\ (Called2("mul") /\ Mixed) =>
          IF TheConst = 0
          THEN ret = << [tag |-> "Const", v |-> 0] >> /\ backend = pre
          ELSE /\ backend = Append(pre, Entry("mul_const", "", TheCell, 0, TheConst, 0))
               /\ ret = << [tag |-> "Cell", v |-> Len(pre) + 1] >>

\* mul took the constant zero on the left and a cell on the right
C7_Witness ==
    /\ Called2("mul")
    /\ args[1][1] = Const(0)
    /\ args[2][1].tag = "Cell"
    /\ ret = << Const(0) >>

\* the last call broke a length precondition
Mismatch ==
    \/ fn \in {"equal", "not_equal"} /\ Len(args[1]) # Len(args[2])
    \/ fn = "if_else" /\ (Len(args[1]) # 1 \/ Len(args[2]) # Len(args[3]))

\* C8: equal, not_equal and if_else called with operands of different
\* lengths, and if_else called with a cond whose length is not 1, abort:
\* they return nothing and perform no backend operation.
C8_MismatchAborts ==
    Mismatch => (status = "aborted" /\ ret = << >> /\ backend = pre)

\* if_else aborted on then_ and else_ of different lengths, with a cond of
\* length 1 that is a cell
C8_Witness ==
    /\ fn = "if_else"
    /\ status = "aborted"
    /\ Len(args[1]) = 1
    /\ args[1][1].tag = "Cell"
    /\ Len(args[2]) > Len(args[3])

\* what the gadget of equal_cells appends to the backend p for x1 and x2
GadgetLog(p, x1, x2) ==
    LET k1 == IF x1.tag = "Const" THEN 1 ELSE 0
        k2 == IF x2.tag = "Const" THEN 1 ELSE 0
        c1 == IF x1.tag = "Const" THEN Len(p) + 1 ELSE x1.v
        c2 == IF x2.tag = "Const" THEN Len(p) + k1 + 1 ELSE x2.v
        b  == Len(p) + k1 + k2
    IN  (IF k1 = 1 THEN << Entry("add_constant", "", 0, 0, x1.v, 0) >> ELSE << >>)
        \o (IF k2 = 1 THEN << Entry("add_constant", "", 0, 0, x2.v, 0) >> ELSE << >>)
        \o << Entry("sub", "", c2, c1, 0, 0),
              Entry("new_internal_var", "Inverse", b + 1, 0, 0, 0),
              Entry("mul", "", b + 2, b + 1, 0, 0),
              Entry("new_internal_var", "LinearCombination", b + 3, 0, Prime - 1, 1),
              Entry("neg", "", b + 4, 0, 0, 0),
              Entry("add_const", "", b + 5, 0, 1, 0),
              Entry("assert_eq_var", "", b + 3, b + 6, 0, 0),
              Entry("mul", "", b + 4, b + 1, 0, 0),
              Entry("assert_eq_const", "", b + 8, 0, 0, 0) >>

\* the assertions among the entries the last call appended
NewAsserts == {i \in (Len(pre) + 1) .. Len(backend) : ~IsCell(backend[i])}

\* C9: equal_cells on two constants performs no backend operation and returns
\* the constant 1 if they are equal and the constant 0 otherwise.  On at
\* least one cell it appends exactly: add_constant for each constant operand
\* (x1 before x2), sub(x2, x1), new_internal_var(Inverse(diff)),
\* mul(diff_inv, diff), new_internal_var(LinearCombination -1 * diff_inv_mul_diff + 1),
\* neg(res), add_const(neg_res, 1), assert_eq_var(diff_inv_mul_diff, one_minus_res),
\* mul(res, diff), assert_eq_const(res_mul_diff, 0); two assertions in all;
\* and it returns the cell res.
C9_GadgetSequence ==
    Returned("equal_cells") =>
        IF BothConst
        THEN /\ backend = pre
             /\ ret = << [tag |-> "Const", v |-> Bit(args[1][1].v = args[2][1].v)] >>
        ELSE /\ backend = pre \o GadgetLog(pre, args[1][1], args[2][1])
             /\ Cardinality(NewAsserts) = 2
             /\ ret = << [tag |-> "Cell", v |-> Len(backend) - 5] >>

\* equal_cells ran on a cell as x1 and a constant as x2
C9_Witness ==
    /\ Returned("equal_cells")
    /\ args[1][1].tag = "Cell"
    /\ args[2][1].tag = "Const"
    /\ Len(backend) = Len(pre) + 10

\* bk is p with entries appended
Extends(bk, p) == Len(p) <= Len(bk) /\ SubSeq(bk, 1, Len(p)) = p

\* every cell an entry reads is named by an earlier entry, which is no assertion
WellFormed(bk) ==
    \A i \in 1 .. Len(bk) :
        \A c \in Reads(bk[i]) : c >= 1 /\ c < i /\ IsCell(bk[c])

\* the cells entry i of bk depends on: those it reads, and those they depend on
RECURSIVE Deps(_, _)
Deps(bk, i) ==
    LET R == {c \in Reads(bk[i]) : c >= 1 /\ c < i}
    IN  R \cup UNION {Deps(bk, c) : c \in R}

\* the entries the last call appended
New == (Len(pre) + 1) .. Len(backend)

\* when the last call ran the gadget of equal_cells: diff comes before
\* diff_inv, the witness cell that holds its inverse, and both come before
\* the two assertions, which depend on them
GadgetOrdered ==
    (fn = "equal_cells" /\ Len(backend) > Len(pre)) =>
        \E diff \in New : \E diff_inv \in New :
            /\ backend[diff].op = "sub"
            /\ backend[diff_inv].value = "Inverse"
            /\ backend[diff_inv].a = diff
            /\ diff < diff_inv
            /\ Cardinality(NewAsserts) = 2
            /\ \A j \in NewAsserts :
                  diff_inv < j /\ {diff, diff_inv} \subseteq Deps(backend, j)

\* C10: over any sequence of calls the backend only grows: each call leaves
\* the entries it found as they were; and every cell that an entry reads (a
\* gate, an assertion or a deferred witness expression) is an input cell or
\* was allocated by an earlier entry; in the gadget of equal_cells, diff
\* comes before diff_inv and both before the assertions.
C10_GrowsInOrder ==
    /\ [](WellFormed(backend) /\ GadgetOrdered)
    /\ [][Extends(backend', backend)]_vars

\* a second call ran the equality gadget on the cell the first call allocated
C10_Witness ==
    /\ ncalls = 2
    /\ Len(pre) > NumInputs
    /\ \E i \in (Len(pre) + 1) .. Len(backend) :
          /\ backend[i].op = "sub"
          /\ \E c \in Reads(backend[i]) : c > NumInputs /\ c <= Len(pre)
    /\ Cardinality(NewAsserts) >= 2

====
